---- MODULE Spec2Model ----
(***************************************************************************)
(* Model of concensus.py: Agent, Network and ConsensusSimulation.          *)
(*                                                                         *)
(* Agent values are Python floats.  They are modelled as exact rationals   *)
(* [n, d] in lowest terms (d > 0), so the arithmetic of step() is carried  *)
(* out as written in the code but without IEEE rounding.  SpecFloat is the *)
(* same network with step() evaluated in rounded arithmetic (significand   *)
(* of MantissaBits bits, round to nearest, ties to even).                  *)
(*                                                                         *)
(* Network.agents is a dict; its iteration order is insertion order.  The  *)
(* caller of the model numbers agents consecutively (as the tests do with  *)
(* range(4)), so insertion order is ascending id order.                    *)
(*                                                                         *)
(* The program is single threaded: while run() is executing (pc # "idle")  *)
(* no other operation of the caller can start.                             *)
(***************************************************************************)
EXTENDS Integers, Sequences, FiniteSets, TLC

(* ------------------------------ bounds --------------------------------- *)
MaxAgents == 6
MaxEdges == 2
MaxRound == 2
MantissaBits == 5

(* ----------------------------- rationals ------------------------------- *)
(* Operands are bound once (a \in {x}) so that every operand expression is
   evaluated a single time, however deeply the operations are nested. *)
Abs(i) == IF i < 0 THEN 0 - i ELSE i

RECURSIVE GCD(_, _)
GCD(a, b) == IF b = 0 THEN a ELSE CHOOSE g \in {GCD(b, m) : m \in {a % b}} : TRUE

R(num, den) ==
    CHOOSE r \in {[n |-> p \div g, d |-> q \div g] :
                    p \in {num}, q \in {den}, g \in {GCD(Abs(num), den)}} : TRUE

RAdd(x, y) == CHOOSE r \in {R(a.n * b.d + b.n * a.d, a.d * b.d) : a \in {x}, b \in {y}} : TRUE
RSub(x, y) == CHOOSE r \in {R(a.n * b.d - b.n * a.d, a.d * b.d) : a \in {x}, b \in {y}} : TRUE
RMul(x, y) == CHOOSE r \in {R(a.n * b.n, a.d * b.d) : a \in {x}, b \in {y}} : TRUE
RDivInt(x, k) == CHOOSE r \in {R(a.n, a.d * k) : a \in {x}} : TRUE
RAbs(x) == CHOOSE r \in {[n |-> Abs(a.n), d |-> a.d] : a \in {x}} : TRUE
RLt(x, y) == \E a \in {x}, b \in {y} : a.n * b.d < b.n * a.d
RLe(x, y) == \E a \in {x}, b \in {y} : a.n * b.d <= b.n * a.d
RMin2(x, y) == CHOOSE r \in {IF RLt(b, a) THEN b ELSE a : a \in {x}, b \in {y}} : TRUE
RMax2(x, y) == CHOOSE r \in {IF RLt(a, b) THEN b ELSE a : a \in {x}, b \in {y}} : TRUE
Zero == R(0, 1)

(* --------------------------- floating point ---------------------------- *)
(* A Python float is a binary floating-point number, and every arithmetic
   operation returns the exact result rounded to the nearest float, ties to
   the even significand.  Round does that for a significand of MantissaBits
   bits (53 in CPython); the exponent range is not modelled. *)
RECURSIVE RoundMag(_, _)
RoundMag(n, d) ==
    IF n >= (2 ^ MantissaBits) * d
    THEN RMul(R(2, 1), RoundMag(n, 2 * d))
    ELSE IF n < (2 ^ (MantissaBits - 1)) * d
    THEN RDivInt(RoundMag(2 * n, d), 2)
    ELSE LET m == n \div d
             rem == n % d
         IN  R(IF 2 * rem > d \/ (2 * rem = d /\ m % 2 = 1) THEN m + 1 ELSE m, 1)

Round(x) ==
    CHOOSE r \in {IF a.n = 0 THEN Zero
                  ELSE IF a.n > 0 THEN RoundMag(a.n, a.d)
                  ELSE RSub(Zero, RoundMag(0 - a.n, a.d)) : a \in {x}} : TRUE

FAdd(x, y) == Round(RAdd(x, y))
FSub(x, y) == Round(RSub(x, y))
FMul(x, y) == Round(RMul(x, y))
FDivInt(x, k) == Round(RDivInt(x, k))

(* ------------------------- inputs of the caller ------------------------ *)
InitialValues(id) == IF id = 0 THEN {R(30, 1)} ELSE IF id = 1 THEN {R(0, 1)} ELSE {R(100, 1)}
StepSizes == {R(0, 1), R(0 - 1, 5), R(1, 2), R(1, 1), R(3, 2)}
Epsilons == {R(1, 1), R(10, 1)}
MaxRoundsArgs == 0 .. MaxRound
EdgeIds == {0, 1}

EmptyMap == [x \in {} |-> Zero]

VARIABLES agents, constructed, step_size, current_round, previous_values,
          pc, run_max, run_eps, run_steps, run_conv, last

vars == <<agents, constructed, step_size, current_round, previous_values,
          pc, run_max, run_eps, run_steps, run_conv, last>>

netvars == <<agents>>
simvars == <<constructed, step_size, current_round, previous_values>>
runvars == <<pc, run_max, run_eps, run_steps, run_conv>>

(* `last` is what the caller saw of the most recent call: the exception it
   raised, or the value it returned (ret: "None", "True", "False" or "int",
   with the integer in n).  For has_converged, n is the local `changed`
   (-1 when the call returned before the second tier). *)
NoResult == [op |-> "none", raised |-> "none", ret |-> "None", n |-> 0]
Raised(op, exc) == [op |-> op, raised |-> exc, ret |-> "None", n |-> 0]
Returned(op, ret, n) == [op |-> op, raised |-> "none", ret |-> ret, n |-> n]

(* ------------------------------- Agent --------------------------------- *)
Agent(agent_id, value) ==
    [agent_id |-> agent_id, value |-> value, neighbors |-> <<>>]

update_value(ag, new_value) == [ag EXCEPT !.value = new_value]

(* ------------------------------ Network -------------------------------- *)
NumEdges == LET RECURSIVE Tot(_)
                Tot(S) == IF S = {} THEN 0
                          ELSE LET a == CHOOSE x \in S : TRUE
                               IN  Len(agents[a].neighbors) + Tot(S \ {a})
            IN  Tot(DOMAIN agents) \div 2

Put(net, agent_id, ag) ==
    [x \in DOMAIN net \cup {agent_id} |-> IF x = agent_id THEN ag ELSE net[x]]

\* variant: no duplicate check, the new agent replaces the existing one
add_agent_overwrite(agent_id, initial_value) ==
    /\ pc = "idle"
    /\ agents' = Put(agents, agent_id, Agent(agent_id, initial_value))
    /\ last' = NoResult
    /\ UNCHANGED <<simvars, runvars>>

add_agent(agent_id, initial_value) ==
    /\ pc = "idle"
    /\ IF agent_id \in DOMAIN agents
       THEN /\ last' = Raised("add_agent", "ValueError")
            /\ UNCHANGED agents
       ELSE /\ agents' = Put(agents, agent_id, Agent(agent_id, initial_value))
            /\ last' = NoResult
    /\ UNCHANGED <<simvars, runvars>>

AppendNeighbor(net, a, b) ==
    [net EXCEPT ![a].neighbors = Append(@, b)]

\* variant: the existence check is made with `and`; with one endpoint missing
\* the lookups of the two appends are reached
add_edge_and(agent_id_a, agent_id_b) ==
    /\ pc = "idle"
    /\ IF agent_id_a \notin DOMAIN agents
       THEN /\ last' = Raised("add_edge", "KeyError")
            /\ UNCHANGED agents
       ELSE IF agent_id_b \notin DOMAIN agents
       THEN /\ last' = Raised("add_edge", "KeyError")
            /\ agents' = AppendNeighbor(agents, agent_id_a, agent_id_b)
       ELSE /\ NumEdges < MaxEdges
            /\ agents' = AppendNeighbor(AppendNeighbor(agents, agent_id_a, agent_id_b),
                                        agent_id_b, agent_id_a)
            /\ last' = NoResult
    /\ UNCHANGED <<simvars, runvars>>

\* variant: an id already in a neighbor list is not appended again
add_edge_dedup(agent_id_a, agent_id_b) ==
    /\ pc = "idle"
    /\ IF agent_id_a \notin DOMAIN agents \/ agent_id_b \notin DOMAIN agents
       THEN /\ last' = Raised("add_edge", "KeyError")
            /\ UNCHANGED agents
       ELSE /\ NumEdges < MaxEdges
            /\ agents' =
                 LET AppendNew(net, a, b) ==
                       IF \E i \in 1 .. Len(net[a].neighbors) : net[a].neighbors[i] = b
                       THEN net ELSE AppendNeighbor(net, a, b)
                 IN  AppendNew(AppendNew(agents, agent_id_a, agent_id_b),
                               agent_id_b, agent_id_a)
            /\ last' = NoResult
    /\ UNCHANGED <<simvars, runvars>>

\* variant: only agent_id_a is checked; the second append is skipped when
\* agent_id_b is not in the network
add_edge_check_a(agent_id_a, agent_id_b) ==
    /\ pc = "idle"
    /\ IF agent_id_a \notin DOMAIN agents
       THEN /\ last' = Raised("add_edge", "KeyError")
            /\ UNCHANGED agents
       ELSE /\ NumEdges < MaxEdges
            /\ agents' = IF agent_id_b \in DOMAIN agents
                         THEN AppendNeighbor(AppendNeighbor(agents, agent_id_a, agent_id_b),
                                             agent_id_b, agent_id_a)
                         ELSE AppendNeighbor(agents, agent_id_a, agent_id_b)
            /\ last' = NoResult
    /\ UNCHANGED <<simvars, runvars>>

add_edge(agent_id_a, agent_id_b) ==
    /\ pc = "idle"
    /\ IF agent_id_a \notin DOMAIN agents \/ agent_id_b \notin DOMAIN agents
       THEN /\ last' = Raised("add_edge", "KeyError")
            /\ UNCHANGED agents
       ELSE /\ NumEdges < MaxEdges
            /\ agents' = AppendNeighbor(AppendNeighbor(agents, agent_id_a, agent_id_b),
                                        agent_id_b, agent_id_a)
            /\ last' = NoResult
    /\ UNCHANGED <<simvars, runvars>>

get_all_values(net) == [aid \in DOMAIN net |-> net[aid].value]

get_all_values_call ==
    /\ pc = "idle"
    /\ last' = NoResult
    /\ UNCHANGED <<netvars, simvars, runvars>>

(* ------------------------- ConsensusSimulation ------------------------- *)
\* variant: the lower bound is not strict, step_size = 0 is accepted
ValidStepSizeClosed(ss) == RLe(Zero, ss) /\ RLe(ss, R(1, 1))

ValidStepSize(ss) == RLt(Zero, ss) /\ RLe(ss, R(1, 1))

Construct(ss) ==
    /\ pc = "idle"
    /\ ~constructed
    /\ IF ~ValidStepSize(ss)
       THEN /\ last' = Raised("init", "ValueError")
            /\ UNCHANGED simvars
       ELSE /\ constructed' = TRUE
            /\ step_size' = ss
            /\ current_round' = 0
            /\ previous_values' = EmptyMap
            /\ last' = NoResult
    /\ UNCHANGED <<netvars, runvars>>

initialize_previous_values(net) == [aid \in DOMAIN net |-> net[aid].value]

initialize_previous_values_call ==
    /\ pc = "idle"
    /\ constructed
    /\ previous_values' = initialize_previous_values(agents)
    /\ last' = NoResult
    /\ UNCHANGED <<netvars, constructed, step_size, current_round, runvars>>

\* agents.items(): the ids in insertion order
Items(net) == [i \in 1 .. Cardinality(DOMAIN net) |-> i - 1]

\* sum(neighbor_values): left to right, starting from 0
RECURSIVE Sum(_)
Sum(vs) == IF vs = <<>> THEN Zero
           ELSE RAdd(Sum(SubSeq(vs, 1, Len(vs) - 1)), vs[Len(vs)])

NeighborValues(net, ag) ==
    [i \in 1 .. Len(ag.neighbors) |-> net[ag.neighbors[i]].value]

\* variant: an agent without neighbors blends with every agent of the network
UpdatedValueGlobal(net, ag, ss) ==
    LET others == IF ag.neighbors = <<>> THEN Items(net) ELSE ag.neighbors
        neighbor_values == [i \in 1 .. Len(others) |-> net[others[i]].value]
        average_local == RDivInt(RAdd(ag.value, Sum(neighbor_values)),
                                 1 + Len(neighbor_values))
    IN  RAdd(ag.value, RMul(ss, RSub(average_local, ag.value)))

UpdatedValue(net, ag, ss) ==
    IF ag.neighbors = <<>>
    THEN ag.value
    ELSE LET neighbor_values == NeighborValues(net, ag)
             average_local == RDivInt(RAdd(ag.value, Sum(neighbor_values)),
                                      1 + Len(neighbor_values))
         IN  RAdd(ag.value, RMul(ss, RSub(average_local, ag.value)))

\* variant: each new value is written to the network as soon as it is computed
RECURSIVE ComputeNewValuesInPlace(_, _, _, _)
ComputeNewValuesInPlace(net, todo, ss, new_values) ==
    IF todo = <<>>
    THEN new_values
    ELSE LET aid == Head(todo)
             v == UpdatedValue(net, net[aid], ss)
         IN  ComputeNewValuesInPlace([net EXCEPT ![aid] = update_value(@, v)],
                                     Tail(todo), ss, new_values @@ (aid :> v))

\* first loop of step(): every new value is computed from the live network,
\* which is not written before the loop ends
RECURSIVE ComputeNewValues(_, _, _, _)
ComputeNewValues(net, todo, ss, new_values) ==
    IF todo = <<>>
    THEN new_values
    ELSE LET aid == Head(todo)
         IN  ComputeNewValues(net, Tail(todo), ss,
                              new_values @@ (aid :> UpdatedValue(net, net[aid], ss)))

\* variant: the second loop stores a new Agent for every new value
RECURSIVE ApplyNewValuesRebuild(_, _, _)
ApplyNewValuesRebuild(net, todo, new_values) ==
    IF todo = <<>>
    THEN net
    ELSE LET aid == Head(todo)
         IN  ApplyNewValuesRebuild([net EXCEPT ![aid] = Agent(aid, new_values[aid])],
                                   Tail(todo), new_values)

\* second loop of step(): apply the new values
RECURSIVE ApplyNewValues(_, _, _)
ApplyNewValues(net, todo, new_values) ==
    IF todo = <<>>
    THEN net
    ELSE LET aid == Head(todo)
         IN  ApplyNewValues([net EXCEPT ![aid] = update_value(@, new_values[aid])],
                            Tail(todo), new_values)

step(net, ss) ==
    LET new_values == ComputeNewValues(net, Items(net), ss, EmptyMap)
    IN  ApplyNewValues(net, Items(net), new_values)

step_call ==
    /\ pc = "idle"
    /\ constructed
    /\ current_round < MaxRound
    /\ current_round' = current_round + 1
    /\ last' = NoResult
    /\ agents' = step(agents, step_size)
    /\ UNCHANGED <<constructed, step_size, previous_values, runvars>>

(* step() as CPython evaluates it: every +, -, * and / is rounded.  sum()
   adds from the left, starting from the integer 0. *)
RECURSIVE SumFloat(_)
SumFloat(vs) == IF vs = <<>> THEN Zero
                ELSE FAdd(SumFloat(SubSeq(vs, 1, Len(vs) - 1)), vs[Len(vs)])

\* variant: the sum is divided by the number of neighbors, without the 1 +
UpdatedValueFloatNoSelf(net, ag, ss) ==
    IF ag.neighbors = <<>>
    THEN ag.value
    ELSE LET neighbor_values == NeighborValues(net, ag)
             average_local == FDivInt(FAdd(ag.value, SumFloat(neighbor_values)),
                                      Len(neighbor_values))
         IN  FAdd(ag.value, FMul(ss, FSub(average_local, ag.value)))

UpdatedValueFloat(net, ag, ss) ==
    IF ag.neighbors = <<>>
    THEN ag.value
    ELSE LET neighbor_values == NeighborValues(net, ag)
             average_local == FDivInt(FAdd(ag.value, SumFloat(neighbor_values)),
                                      1 + Len(neighbor_values))
         IN  FAdd(ag.value, FMul(ss, FSub(average_local, ag.value)))

RECURSIVE ComputeNewValuesFloat(_, _, _, _)
ComputeNewValuesFloat(net, todo, ss, new_values) ==
    IF todo = <<>>
    THEN new_values
    ELSE LET aid == Head(todo)
         IN  ComputeNewValuesFloat(net, Tail(todo), ss,
                                   new_values @@ (aid :> UpdatedValueFloat(net, net[aid], ss)))

step_float(net, ss) ==
    LET new_values == ComputeNewValuesFloat(net, Items(net), ss, EmptyMap)
    IN  ApplyNewValues(net, Items(net), new_values)

step_float_call ==
    /\ pc = "idle"
    /\ constructed
    /\ current_round < MaxRound
    /\ current_round' = current_round + 1
    /\ last' = NoResult
    /\ agents' = step_float(agents, step_size)
    /\ UNCHANGED <<constructed, step_size, previous_values, runvars>>

RECURSIVE MinOf(_)
MinOf(vs) == IF Len(vs) = 1 THEN vs[1] ELSE RMin2(vs[1], MinOf(Tail(vs)))
RECURSIVE MaxOf(_)
MaxOf(vs) == IF Len(vs) = 1 THEN vs[1] ELSE RMax2(vs[1], MaxOf(Tail(vs)))

AllValues(net) == [i \in 1 .. Len(Items(net)) |-> net[Items(net)[i]].value]

\* variant: an agent without an entry in the snapshot is compared with 0.0
ChangedDefaultZero(net, prev, epsilon) ==
    Cardinality({aid \in DOMAIN net :
        LET old_v == IF aid \in DOMAIN prev THEN prev[aid] ELSE Zero
        IN  RLt(epsilon, RAbs(RSub(net[aid].value, old_v)))})

\* loop of the second tier: number of agents that moved by more than epsilon
Changed(net, prev, epsilon) ==
    Cardinality({aid \in DOMAIN net :
        LET old_v == IF aid \in DOMAIN prev THEN prev[aid] ELSE net[aid].value
        IN  RLt(epsilon, RAbs(RSub(net[aid].value, old_v)))})

\* variant: no first tier (no empty-network return, no spread check)
has_converged_no_spread(net, prev, epsilon) ==
    LET changed == Changed(net, prev, epsilon)
    IN  [ret |-> IF Cardinality(DOMAIN net) > 0
                 THEN RLt(R(changed, Cardinality(DOMAIN net)), R(1, 5))
                 ELSE FALSE,
         prev |-> [aid \in DOMAIN net |-> net[aid].value],
         changed |-> changed]

\* variant: the snapshot is refreshed on every path
has_converged_refresh_always(net, prev, epsilon) ==
    LET all_values == AllValues(net)
        now == [aid \in DOMAIN net |-> net[aid].value]
    IN  IF all_values = <<>>
        THEN [ret |-> TRUE, prev |-> now, changed |-> 0 - 1]
        ELSE IF RLt(RSub(MaxOf(all_values), MinOf(all_values)), epsilon)
        THEN [ret |-> TRUE, prev |-> now, changed |-> 0 - 1]
        ELSE LET changed == Changed(net, prev, epsilon)
                 ratio == R(changed, Cardinality(DOMAIN net))
             IN  [ret |-> RLt(ratio, R(1, 5)), prev |-> now, changed |-> changed]

\* variant: ratio <= 0.2 instead of ratio < 0.2
has_converged_le(net, prev, epsilon) ==
    LET all_values == AllValues(net)
    IN  IF all_values = <<>>
        THEN [ret |-> TRUE, prev |-> prev, changed |-> 0 - 1]
        ELSE IF RLt(RSub(MaxOf(all_values), MinOf(all_values)), epsilon)
        THEN [ret |-> TRUE, prev |-> prev, changed |-> 0 - 1]
        ELSE LET changed == Changed(net, prev, epsilon)
                 ratio == R(changed, Cardinality(DOMAIN net))
             IN  [ret |-> RLe(ratio, R(1, 5)),
                  prev |-> [aid \in DOMAIN net |-> net[aid].value],
                  changed |-> changed]

\* has_converged: the returned flag and the _previous_values it leaves
has_converged(net, prev, epsilon) ==
    LET all_values == AllValues(net)
    IN  IF all_values = <<>>
        THEN [ret |-> TRUE, prev |-> prev, changed |-> 0 - 1]
        ELSE IF RLt(RSub(MaxOf(all_values), MinOf(all_values)), epsilon)
        THEN [ret |-> TRUE, prev |-> prev, changed |-> 0 - 1]
        ELSE LET changed == Changed(net, prev, epsilon)
                 ratio == R(changed, Cardinality(DOMAIN net))
             IN  [ret |-> RLt(ratio, R(1, 5)),
                  prev |-> [aid \in DOMAIN net |-> net[aid].value],
                  changed |-> changed]

has_converged_call(epsilon) ==
    /\ pc = "idle"
    /\ constructed
    /\ LET r == has_converged(agents, previous_values, epsilon)
       IN  /\ previous_values' = r.prev
           /\ last' = Returned("has_converged", IF r.ret THEN "True" ELSE "False", r.changed)
    /\ UNCHANGED <<netvars, constructed, step_size, current_round, runvars>>

\* variant: convergence is tested before the first round
run_call_check_first(max_rounds, epsilon) ==
    /\ pc = "idle"
    /\ constructed
    /\ current_round + max_rounds <= MaxRound
    /\ previous_values' = initialize_previous_values(agents)
    /\ run_max' = max_rounds
    /\ run_eps' = epsilon
    /\ run_steps' = 0
    /\ run_conv' = "none"
    /\ pc' = IF has_converged(agents, initialize_previous_values(agents), epsilon).ret
             THEN "run_return" ELSE "run_loop"
    /\ UNCHANGED last
    /\ UNCHANGED <<netvars, constructed, step_size, current_round>>

\* variant: run() restarts the round counter
run_call_reset(max_rounds, epsilon) ==
    /\ pc = "idle"
    /\ constructed
    /\ max_rounds <= MaxRound
    /\ previous_values' = initialize_previous_values(agents)
    /\ current_round' = 0
    /\ run_max' = max_rounds
    /\ run_eps' = epsilon
    /\ run_steps' = 0
    /\ run_conv' = "none"
    /\ pc' = "run_loop"
    /\ UNCHANGED last
    /\ UNCHANGED <<netvars, constructed, step_size>>

\* variant: run() does not take the snapshot at entry
run_call_no_init(max_rounds, epsilon) ==
    /\ pc = "idle"
    /\ constructed
    /\ current_round + max_rounds <= MaxRound
    /\ run_max' = max_rounds
    /\ run_eps' = epsilon
    /\ run_steps' = 0
    /\ run_conv' = "none"
    /\ pc' = "run_loop"
    /\ UNCHANGED last
    /\ UNCHANGED <<netvars, constructed, step_size, current_round, previous_values>>

\* run(): entry, self.initialize_previous_values()
run_call(max_rounds, epsilon) ==
    /\ pc = "idle"
    /\ constructed
    /\ current_round + max_rounds <= MaxRound
    /\ previous_values' = initialize_previous_values(agents)
    /\ run_max' = max_rounds
    /\ run_eps' = epsilon
    /\ run_steps' = 0
    /\ run_conv' = "none"
    /\ pc' = "run_loop"
    /\ UNCHANGED last
    /\ UNCHANGED <<netvars, constructed, step_size, current_round>>

\* run(): for _ in range(max_rounds): self.step()
run_loop ==
    /\ pc = "run_loop"
    /\ IF run_steps >= run_max
       THEN /\ pc' = "run_return"
            /\ UNCHANGED <<agents, current_round, run_steps>>
       ELSE /\ current_round' = current_round + 1
            /\ run_steps' = run_steps + 1
            /\ pc' = "run_check"
            /\ agents' = step(agents, step_size)
    /\ UNCHANGED <<constructed, step_size, previous_values, run_max, run_eps, run_conv, last>>

\* variant: the loop does not break when has_converged returns true
run_check_no_break ==
    /\ pc = "run_check"
    /\ LET r == has_converged(agents, previous_values, run_eps)
       IN  /\ previous_values' = r.prev
           /\ run_conv' = IF r.ret THEN "true" ELSE "false"
           /\ pc' = "run_loop"
    /\ UNCHANGED <<netvars, constructed, step_size, current_round,
                   run_max, run_eps, run_steps, last>>

\* run(): if self.has_converged(epsilon=epsilon): break
run_check ==
    /\ pc = "run_check"
    /\ LET r == has_converged(agents, previous_values, run_eps)
       IN  /\ previous_values' = r.prev
           /\ run_conv' = IF r.ret THEN "true" ELSE "false"
           /\ pc' = IF r.ret THEN "run_return" ELSE "run_loop"
    /\ UNCHANGED <<netvars, constructed, step_size, current_round,
                   run_max, run_eps, run_steps, last>>

\* run(): return self.current_round
run_return ==
    /\ pc = "run_return"
    /\ pc' = "idle"
    /\ last' = Returned("run", "int", current_round)
    /\ run_max' = 0
    /\ run_eps' = Zero
    /\ run_steps' = 0
    /\ run_conv' = "none"
    /\ UNCHANGED <<netvars, simvars>>

Init ==
    /\ agents = [x \in {} |-> Agent(0, Zero)]
    /\ constructed = FALSE
    /\ step_size = Zero
    /\ current_round = 0
    /\ previous_values = EmptyMap
    /\ pc = "idle"
    /\ run_max = 0
    /\ run_eps = Zero
    /\ run_steps = 0
    /\ run_conv = "none"
    /\ last = NoResult

Next ==
    \/ \E id \in 0 .. MaxAgents - 1 :
         /\ id <= Cardinality(DOMAIN agents)
         /\ \E v \in InitialValues(id) : add_agent(id, v)
    \/ \E a \in EdgeIds, b \in EdgeIds : add_edge(a, b)
    \/ get_all_values_call
    \/ \E ss \in StepSizes : Construct(ss)
    \/ initialize_previous_values_call
    \/ step_call
    \/ \E epsilon \in Epsilons : has_converged_call(epsilon)
    \/ \E max_rounds \in MaxRoundsArgs, epsilon \in Epsilons : run_call(max_rounds, epsilon)
    \/ run_loop
    \/ run_check
    \/ run_return

Spec == Init /\ [][Next]_vars

\* run() is a plain loop of a single-threaded program: once called it keeps
\* executing until it returns
FairSpec ==
    Spec /\ WF_vars(run_loop) /\ WF_vars(run_check) /\ WF_vars(run_return)

\* the network operations and step() with the arithmetic of Python floats
NextFloat ==
    \/ \E id \in 0 .. MaxAgents - 1 :
         /\ id <= Cardinality(DOMAIN agents)
         /\ \E v \in InitialValues(id) : add_agent(id, v)
    \/ \E a \in EdgeIds, b \in EdgeIds : add_edge(a, b)
    \/ \E ss \in StepSizes : Construct(ss)
    \/ step_float_call

SpecFloat == Init /\ [][NextFloat]_vars

(* ------------------------------ properties ----------------------------- *)
\* a transition in which step() ran, alone or as the body of run()'s loop
StepRan == step_call \/ (run_loop /\ run_steps < run_max)

\* the value the update rule assigns to agent a from the values old
RECURSIVE SumOld(_, _)
SumOld(old, ns) == IF ns = <<>> THEN Zero ELSE RAdd(old[Head(ns)], SumOld(old, Tail(ns)))
BarrierValue(old, a, ns, alpha) ==
    RAdd(old[a], RMul(alpha, RSub(RDivInt(RAdd(old[a], SumOld(old, ns)), 1 + Len(ns)),
                                  old[a])))

\* C1: step() is a synchronous round: every agent with neighbors ends at
\* old(A) + step_size * ((old(A) + sum of old(N) over its neighbor entries)
\* / (1 + number of entries) - old(A)), old being the values at the start of
\* the round.
C1_SynchronousRound ==
    [][StepRan =>
        LET old == [a \in DOMAIN agents |-> agents[a].value]
        IN  \A a \in DOMAIN agents :
              agents[a].neighbors # <<>> =>
                agents'[a].value = BarrierValue(old, a, agents[a].neighbors, step_size)]_vars

\* one round at step_size 1/2 on the edge 0-1 with values 30 and 0
C1_Witness ==
    /\ current_round = 1
    /\ DOMAIN agents = {0, 1}
    /\ agents[0].neighbors = <<1>> /\ agents[1].neighbors = <<0>>
    /\ agents[0].value = R(45, 2) /\ agents[1].value = R(15, 2)

\* C2: an agent whose neighbor list is empty keeps exactly its value in every
\* transition (step, has_converged, run, at any step_size).
C2_IsolatedKeepsValue ==
    [][\A a \in DOMAIN agents :
         agents[a].neighbors = <<>> => agents'[a].value = agents[a].value]_vars

\* two rounds have moved agent 0 while the isolated agent 2 still holds 100
C2_Witness ==
    /\ current_round = 2
    /\ DOMAIN agents = {0, 1, 2}
    /\ agents[2].neighbors = <<>> /\ agents[2].value = R(100, 1)
    /\ agents[0].neighbors # <<>> /\ agents[0].value # R(30, 1)

\* C3: run(max_rounds, epsilon) terminates, alternates step() and
\* has_converged(epsilon), executes at most max_rounds steps and none after the
\* first has_converged that returns true; when it returns, the last
\* has_converged returned true or exactly max_rounds steps were executed.
C3_RunState ==
    /\ pc # "idle" => run_steps <= run_max
    /\ pc = "run_check" => run_steps >= 1
    /\ pc = "run_loop" => run_conv # "true"
    /\ pc = "run_return" => (run_conv = "true" \/ run_steps = run_max)
C3_RunStep ==
    /\ (pc # "idle" /\ current_round' # current_round) =>
          /\ pc = "run_loop" /\ pc' = "run_check"
          /\ run_conv # "true"
          /\ run_steps' = run_steps + 1
    /\ pc = "run_check" =>
          /\ run_conv' \in {"true", "false"}
          /\ run_conv' = "true" => pc' = "run_return"
          /\ run_conv' = "false" => pc' = "run_loop"
          /\ agents' = agents /\ current_round' = current_round
    /\ (pc # "idle" /\ run_conv = "true") =>
          (agents' = agents /\ current_round' = current_round)
C3_Run ==
    /\ []C3_RunState
    /\ [][C3_RunStep]_vars
    /\ (pc # "idle") ~> (pc = "idle")

\* a run that stopped on convergence with rounds of its budget left
C3_Witness ==
    /\ pc = "run_return"
    /\ run_conv = "true"
    /\ run_steps = 1 /\ run_max = 2
    /\ DOMAIN agents = {0, 1} /\ agents[0].neighbors # <<>>

\* C4 (as claimed): every call to run executes at least one round.
C4_AtLeastOneRound == pc = "run_return" => run_steps >= 1

\* C4 (amended): every call to run with max_rounds >= 1 executes at least one
\* round, also on an empty or an already converged network.
C4_AtLeastOneRoundIfBudget == (pc = "run_return" /\ run_max >= 1) => run_steps >= 1

\* run on an empty network: one round was executed before convergence was seen
C4_Witness ==
    /\ pc = "run_return"
    /\ DOMAIN agents = {}
    /\ run_max = 2 /\ run_steps = 1

\* C5 (as claimed): run returns the number of rounds that call executed, and
\* that number equals current_round, on every call.
C5_ReturnsRoundsOfCall ==
    [][(pc = "run_return" /\ pc' = "idle") =>
         (last'.n = run_steps /\ last'.n = current_round)]_vars

NoEdges == \A a \in DOMAIN agents : agents[a].neighbors = <<>>

\* C6: on a simulation that has executed no round before, run with
\* max_rounds >= 1 over an empty network or a single agent without edges returns
\* exactly 1 without error, and no value changes while run executes.
C6_TrivialNetworkRun ==
    [][(Cardinality(DOMAIN agents) <= 1 /\ NoEdges) =>
        /\ (pc # "idle" \/ pc' # "idle") =>
              (DOMAIN agents' = DOMAIN agents /\
               \A a \in DOMAIN agents : agents'[a].value = agents[a].value)
        /\ (pc = "run_return" /\ pc' = "idle" /\ run_max >= 1
              /\ current_round = run_steps) =>
              last' = Returned("run", "int", 1)]_vars

\* run has returned 1 on the single agent 0, which still holds 30
C6_Witness ==
    /\ pc = "idle"
    /\ last = Returned("run", "int", 1)
    /\ DOMAIN agents = {0}
    /\ agents[0].neighbors = <<>> /\ agents[0].value = R(30, 1)

\* max(value) - min(value) < epsilon
SpreadBelow(epsilon) ==
    \A a \in DOMAIN agents, b \in DOMAIN agents :
        RLt(RSub(agents[a].value, agents[b].value), epsilon)
CurrentValues == [a \in DOMAIN agents |-> agents[a].value]

\* C7: has_converged(epsilon), first tier: true on a network without agents,
\* true when the spread is < epsilon whatever previous_values holds, and
\* previous_values is left unchanged on both paths.
C7_FirstTier ==
    [][(last'.op = "has_converged" \/ pc = "run_check") =>
        \A epsilon \in Epsilons :
         (DOMAIN agents = {} \/ SpreadBelow(epsilon)) =>
           /\ has_converged_call(epsilon) =>
                (last'.ret = "True" /\ previous_values' = previous_values)
           /\ (run_check /\ run_eps = epsilon) =>
                (run_conv' = "true" /\ previous_values' = previous_values)]_vars

\* has_converged returned true on the spread although the snapshot is stale
C7_Witness ==
    /\ last.op = "has_converged" /\ last.ret = "True" /\ last.n = 0 - 1
    /\ Cardinality(DOMAIN agents) >= 2
    /\ DOMAIN previous_values = DOMAIN agents
    /\ \E a \in DOMAIN agents : previous_values[a] # agents[a].value

\* C8: has_converged(epsilon), second tier, reached exactly when the network
\* is non-empty and the spread is >= epsilon: true iff (agents that moved by more
\* than epsilon since the snapshot, agents without an entry not counting) /
\* (number of agents) < 0.2; previous_values then equals the current mapping.
C8_SecondTier ==
    [][(last'.op = "has_converged" \/ pc = "run_check") =>
        \A epsilon \in Epsilons :
         LET second == DOMAIN agents # {} /\ ~SpreadBelow(epsilon)
             moved == {a \in DOMAIN agents \cap DOMAIN previous_values :
                         RLt(epsilon, RAbs(RSub(agents[a].value, previous_values[a])))}
             few == 5 * Cardinality(moved) < Cardinality(DOMAIN agents)
         IN  /\ has_converged_call(epsilon) =>
                  /\ last'.n >= 0 <=> second
                  /\ second => /\ last'.ret = "True" <=> few
                               /\ last'.n = Cardinality(moved)
                               /\ previous_values' = CurrentValues
             /\ (run_check /\ run_eps = epsilon /\ second) =>
                  /\ run_conv' = "true" <=> few
                  /\ previous_values' = CurrentValues]_vars

\* has_converged returned true on the ratio while one agent of six had moved
C8_Witness ==
    /\ last.op = "has_converged" /\ last.ret = "True" /\ last.n = 1
    /\ Cardinality(DOMAIN agents) = 6
    /\ previous_values = CurrentValues

\* C9: current_round is 0 after construction, grows by exactly 1 on every
\* step(), is changed by no other operation and never decreases.
C9_RoundCounter ==
    [][/\ (~constructed /\ constructed') => current_round' = 0
       /\ StepRan => current_round' = current_round + 1
       /\ ~StepRan => current_round' = current_round
       /\ current_round' >= current_round]_vars

\* a second run() has returned on a simulation whose counter was already 1
C9_Witness ==
    /\ pc = "run_return"
    /\ current_round = 2 /\ run_steps = 1

\* C10: add_agent with an id already present raises ValueError and leaves the
\* network unchanged; with an unused id it adds exactly one agent with the
\* given value and no neighbors, and changes nothing else.
C10_AddAgent ==
    [][(agents' # agents \/ last'.op = "add_agent") =>
        \A id \in 0 .. MaxAgents - 1 : \A v \in InitialValues(id) :
         add_agent(id, v) =>
           IF id \in DOMAIN agents
           THEN /\ last' = Raised("add_agent", "ValueError")
                /\ agents' = agents
           ELSE /\ last'.raised = "none"
                /\ DOMAIN agents' = DOMAIN agents \cup {id}
                /\ agents'[id] = [agent_id |-> id, value |-> v, neighbors |-> <<>>]
                /\ \A a \in DOMAIN agents : agents'[a] = agents[a]]_vars

\* a duplicate add_agent was rejected on a network whose agent 0 has moved
C10_Witness ==
    /\ last = Raised("add_agent", "ValueError")
    /\ 0 \in DOMAIN agents
    /\ agents[0].neighbors # <<>> /\ agents[0].value # R(30, 1)

\* C11: add_edge(a, b) with a or b (either one, in either argument position)
\* not in the network raises KeyError and leaves every neighbor list, and the
\* whole network, unchanged.
C11_AddEdgeUnknown ==
    [][(agents' # agents \/ last'.op = "add_edge") =>
        \A a \in EdgeIds, b \in EdgeIds :
         (add_edge(a, b) /\ (a \notin DOMAIN agents \/ b \notin DOMAIN agents)) =>
           /\ last' = Raised("add_edge", "KeyError")
           /\ DOMAIN agents' = DOMAIN agents
           /\ \A x \in DOMAIN agents : agents'[x].neighbors = agents[x].neighbors
           /\ agents' = agents]_vars

\* an edge to the absent agent 1 was rejected; agent 0 exists and still has
\* only the entries of its self-loop
C11_Witness ==
    /\ last = Raised("add_edge", "KeyError")
    /\ DOMAIN agents = {0}
    /\ agents[0].neighbors = <<0, 0>>

\* number of occurrences of x in the list ns
Occurrences(ns, x) == Cardinality({i \in 1 .. Len(ns) : ns[i] = x})

\* C12: edges are symmetric in every reachable state (for distinct agents a
\* and b, b occurs in a's list as often as a occurs in b's list); a successful
\* add_edge(a, b) appends b at the end of a's list and a at the end of b's list
\* (two appends, also when a = b, no deduplication) and changes no other list,
\* no value and no agent.
C12_SymmetricState ==
    \A a \in DOMAIN agents, b \in DOMAIN agents :
        a # b => Occurrences(agents[a].neighbors, b) = Occurrences(agents[b].neighbors, a)
C12_AddEdgeStep ==
    (agents' # agents \/ last'.op = "add_edge") =>
      \A a \in EdgeIds, b \in EdgeIds :
        (add_edge(a, b) /\ a \in DOMAIN agents /\ b \in DOMAIN agents) =>
          /\ last'.raised = "none"
          /\ DOMAIN agents' = DOMAIN agents
          /\ \A x \in DOMAIN agents :
                /\ agents'[x].value = agents[x].value
                /\ agents'[x].agent_id = agents[x].agent_id
                /\ agents'[x].neighbors =
                     IF a = b /\ x = a THEN agents[x].neighbors \o <<a, a>>
                     ELSE IF x = a THEN Append(agents[x].neighbors, b)
                     ELSE IF x = b THEN Append(agents[x].neighbors, a)
                     ELSE agents[x].neighbors
C12_Edges ==
    /\ []C12_SymmetricState
    /\ [][C12_AddEdgeStep]_vars

\* after a round: the self-loop 0-0 and the edge 0-1 were added in that order,
\* and the edge 0-1 is held by both endpoints
C12_Witness ==
    /\ current_round >= 1
    /\ DOMAIN agents = {0, 1, 2}
    /\ agents[0].neighbors = <<0, 0, 1>>
    /\ agents[1].neighbors = <<0>>
    /\ agents[2].neighbors = <<>>

\* C13: constructing a ConsensusSimulation succeeds iff 0 < step_size <= 1;
\* otherwise (0, -1/5, 3/2) it raises ValueError and no simulation exists;
\* 1 and 1/2 succeed; step_size is changed by no later operation.
C13_ConstructStep ==
    /\ (~constructed /\ (constructed' \/ last'.op = "init")) =>
         \A ss \in StepSizes :
           Construct(ss) =>
             IF 0 < ss.n /\ ss.n <= ss.d
             THEN /\ constructed' /\ step_size' = ss
                  /\ last'.raised = "none"
             ELSE /\ ~constructed'
                  /\ last' = Raised("init", "ValueError")
    /\ constructed => (constructed' /\ step_size' = step_size)
C13_Construction ==
    /\ [](constructed => step_size \in {R(1, 2), R(1, 1)})
    /\ [][C13_ConstructStep]_vars

\* a construction was rejected: there is no simulation over the network
C13_Witness ==
    /\ last = Raised("init", "ValueError")
    /\ ~constructed
    /\ DOMAIN agents = {0, 1} /\ agents[0].neighbors = <<1>>

\* C14: values are written only by step(): every transition in which step()
\* does not run (has_converged, initialize_previous_values, get_all_values,
\* add_agent, add_edge, the other steps of run) keeps every existing agent and
\* its value; step(), has_converged and run change neither the set of agents
\* nor any neighbor list.
C14_FrameStep ==
    /\ (\A a \in DOMAIN agents :
            a \in DOMAIN agents' /\ agents'[a].value = agents[a].value)
       \/ StepRan
    /\ (current_round' # current_round \/ last'.op = "has_converged"
          \/ pc # "idle" \/ pc' # "idle") =>
         /\ DOMAIN agents' = DOMAIN agents
         /\ \A a \in DOMAIN agents :
               /\ agents'[a].neighbors = agents[a].neighbors
               /\ agents'[a].agent_id = agents[a].agent_id
C14_Frame == [][C14_FrameStep]_vars

\* has_converged has just returned false after two rounds: the values have
\* moved, the agents and the edge 0-1 are as they were built
C14_Witness ==
    /\ last.op = "has_converged" /\ last.ret = "False"
    /\ current_round = 2
    /\ DOMAIN agents = {0, 1}
    /\ agents[0].neighbors = <<1>> /\ agents[1].neighbors = <<0>>
    /\ agents[0].value # R(30, 1)

\* C16 (as claimed): the sum, hence the arithmetic mean, of all agent values is
\* the same after step() as before it, for every network and step_size.
C16_MeanConserved ==
    [][current_round' # current_round =>
        (StepRan => Sum(AllValues(agents')) = Sum(AllValues(agents)))]_vars

\* C17: in every reachable state each agent is stored under its own id and
\* each id in each neighbor list is the id of an agent of the network, so the
\* lookups agents[n] of step() always succeed.
C17_WellFormed ==
    \A a \in DOMAIN agents :
        /\ agents[a].agent_id = a
        /\ \A i \in 1 .. Len(agents[a].neighbors) : agents[a].neighbors[i] \in DOMAIN agents

\* two rounds and a convergence check have completed on a network with the
\* edge 0-1 taken twice
C17_Witness ==
    /\ current_round = 2
    /\ last.op = "has_converged"
    /\ DOMAIN agents = {0, 1, 2}
    /\ agents[0].neighbors = <<1, 1>> /\ agents[1].neighbors = <<0, 0>>

\* C18: within a run() call, every round starts with previous_values equal to
\* the agent values of that moment and step() does not touch the snapshot, so
\* at the has_converged that follows the round the snapshot holds the values
\* of the start of the round just executed; nothing but that has_converged
\* runs between the round and the next one.
C18_SnapshotStep ==
    /\ (pc = "run_loop" /\ pc' = "run_check") =>
          /\ previous_values = CurrentValues
          /\ previous_values' = previous_values
    /\ pc = "run_check" =>
          /\ run_check
          /\ pc' = "run_loop" => previous_values' = [a \in DOMAIN agents' |-> agents'[a].value]
C18_Snapshot == [][C18_SnapshotStep]_vars

\* second has_converged of a run: the snapshot is the values after round 1,
\* neither the initial values nor the current ones
C18_Witness ==
    /\ pc = "run_check" /\ run_steps = 2
    /\ DOMAIN agents = {0, 1}
    /\ previous_values # CurrentValues
    /\ previous_values[0] # R(30, 1)

\* previous_values has no entry for any agent of the network
NoSnapshotEntry == DOMAIN previous_values \cap DOMAIN agents = {}

\* C19: has_converged called on a non-empty network while previous_values has
\* no entry for any agent returns true, whatever the spread and epsilon (no
\* agent counts as changed); it leaves previous_values without entries or
\* equal to the current values, and a has_converged called directly after it
\* returns true as well.
C19_NoSnapshotStep ==
    (pc = "idle" /\ pc' = "idle" /\ last'.op = "has_converged" /\ DOMAIN agents # {}) =>
      /\ NoSnapshotEntry =>
           /\ last'.ret = "True"
           /\ last'.n \in {0 - 1, 0}
           /\ previous_values' \in {previous_values, CurrentValues}
      /\ (last.op = "has_converged" /\ (NoSnapshotEntry \/ previous_values = CurrentValues)) =>
           last'.ret = "True"
C19_NoSnapshot == [][C19_NoSnapshotStep]_vars

\* never a round, never a run: has_converged(1) has returned true through the
\* second tier on six agents whose values spread from 0 to 100
C19_Witness ==
    /\ last = Returned("has_converged", "True", 0)
    /\ current_round = 0
    /\ Cardinality(DOMAIN agents) = 6
    /\ previous_values = CurrentValues

\* the values before the round of agent a and of its neighbor entries
LocalValues(a) ==
    <<agents[a].value>> \o
    [i \in 1 .. Len(agents[a].neighbors) |-> agents[agents[a].neighbors[i]].value]

====
